---- MODULE Spec2Model ----
(***************************************************************************)
(* Model of c_d_m_s_functions.py: scan the four local BibTeX files for     *)
(* known keys, read the citation keys of the LaTeX documents, then, per    *)
(* provider, fetch a BibTeX payload per cited key and append the records   *)
(* whose key is neither known nor already fetched.                         *)
(*                                                                         *)
(* Text is a sequence of tokens.  A token is one character, except that    *)
(* the literals the program compares against (the provider prefixes and    *)
(* the citation command names) are single tokens.  "NL" is the newline,    *)
(* "SP" a blank.                                                           *)
(***************************************************************************)
EXTENDS Integers, Sequences, FiniteSets, TLC

\* ------------------------------------------------------------------------
\* Bounds of the model
\* ------------------------------------------------------------------------
\* largest number of keys in the citation argument list of the document
MaxCited == 2
\* largest number of BibTeX records in one fetched payload
MaxItems == 2

\* ------------------------------------------------------------------------
\* Program constants
\* ------------------------------------------------------------------------
Providers == {"Cogprints", "DBLP", "Microsoft", "Springer"}

Buckets == Providers \cup {"unused"}

\* variant: DBLP runs before Cogprints
ProviderOrderSwapped == <<"DBLP", "Cogprints", "Microsoft", "Springer">>

\* the order in which open_file runs the four providers
ProviderOrder == <<"Cogprints", "DBLP", "Microsoft", "Springer">>

\* the literal prefixes tested by read_latex
Prefix == [Cogprints |-> "Cogprints:", DBLP |-> "DBLP:",
           Microsoft |-> "Microsoft:", Springer |-> "Springer:"]

\* the command names of the citation pattern
Commands == {"cite", "citep", "citet", "fullciteown", "autocite", "textcite"}

\* tokens of the class [a-zA-Z]
Letters == {"a", "x", "y"} \cup Commands

\* tokens removed by str.strip()
Whitespace == {"SP", "NL"}

\* ------------------------------------------------------------------------
\* Text helpers
\* ------------------------------------------------------------------------
Max(S) == CHOOSE m \in S : \A n \in S : n =< m

Min(S) == CHOOSE m \in S : \A n \in S : m =< n

\* index of the first c in s at or after position i, 0 when there is none
RECURSIVE First(_, _, _)
First(s, c, i) ==
  IF i > Len(s) THEN 0 ELSE IF s[i] = c THEN i ELSE First(s, c, i + 1)

\* str.strip(): drop leading and trailing whitespace
Strip(s) ==
  LET keep == {j \in 1..Len(s) : s[j] \notin Whitespace}
  IN IF keep = {} THEN <<>> ELSE SubSeq(s, Min(keep), Max(keep))

\* str.split(','): the pieces between the commas, empty pieces included
RECURSIVE SplitComma(_)
SplitComma(s) ==
  LET c == First(s, ",", 1)
  IN IF c = 0 THEN <<s>>
     ELSE <<SubSeq(s, 1, c - 1)>> \o SplitComma(SubSeq(s, c + 1, Len(s)))

\* str.startswith(prefix) for a prefix literal
StartsWith(s, pre) == Len(s) >= 1 /\ s[1] = pre

\* iteration over a text file: the lines, each with its newline
RECURSIVE FileLines(_)
FileLines(s) ==
  LET n == First(s, "NL", 1)
  IN IF s = <<>> THEN <<>>
     ELSE IF n = 0 THEN <<s>>
     ELSE <<SubSeq(s, 1, n)>> \o FileLines(SubSeq(s, n + 1, Len(s)))

\* last index of the run of letters that starts at position i (i - 1 if none)
RECURSIVE LetterRun(_, _)
LetterRun(s, i) ==
  IF i =< Len(s) /\ s[i] \in Letters THEN LetterRun(s, i + 1) ELSE i - 1

\* ------------------------------------------------------------------------
\* The four patterns
\* ------------------------------------------------------------------------
\* re.finditer(r'@.*\{([^,]*),', line) from position i: the captured groups.
\* '.*' is greedy and stops at a newline, so the brace is the last one on
\* the line that still has a comma after it.
RECURSIVE BibtexCitations(_, _)
BibtexCitations(s, i) ==
  IF i > Len(s) THEN <<>>
  ELSE IF s[i] # "@" THEN BibtexCitations(s, i + 1)
  ELSE LET J == {j \in (i + 1)..Len(s) :
                   /\ s[j] = "{"
                   /\ \A n \in (i + 1)..(j - 1) : s[n] # "NL"
                   /\ First(s, ",", j + 1) # 0}
       IN IF J = {} THEN BibtexCitations(s, i + 1)
          ELSE LET j == Max(J)
                   c == First(s, ",", j + 1)
               IN <<SubSeq(s, j + 1, c - 1)>> \o BibtexCitations(s, c + 1)

\* re.finditer(r'(?:cite|...|textcite)\{([^}]+)}', line) from position i
RECURSIVE TexCitation(_, _)
TexCitation(s, i) ==
  IF i > Len(s) THEN <<>>
  ELSE IF s[i] \in Commands /\ i + 1 =< Len(s) /\ s[i + 1] = "{"
          /\ First(s, "}", i + 2) > i + 2
       THEN LET j == First(s, "}", i + 2)
            IN <<SubSeq(s, i + 2, j - 1)>> \o TexCitation(s, j + 1)
       ELSE TexCitation(s, i + 1)

\* re.finditer(r'(@[a-zA-Z]+\{[^@]*\n})', text) with DOTALL from position i.
\* '[^@]*' is greedy: a record ends at the last newline-brace before the
\* next '@'.
RECURSIVE BibtexItems(_, _)
BibtexItems(s, i) ==
  IF i > Len(s) THEN <<>>
  ELSE IF s[i] # "@" THEN BibtexItems(s, i + 1)
  ELSE LET m == LetterRun(s, i + 1)
           at == First(s, "@", m + 2)
           q == IF at = 0 THEN Len(s) + 1 ELSE at
           E == {e \in (m + 2)..(q - 2) : s[e] = "NL" /\ s[e + 1] = "}"}
       IN IF m > i /\ m + 1 =< Len(s) /\ s[m + 1] = "{" /\ E # {}
          THEN <<SubSeq(s, i, Max(E) + 1)>> \o BibtexItems(s, Max(E) + 2)
          ELSE BibtexItems(s, i + 1)

\* re.match(r'@[a-zA-Z]+\{([^,]+),\s*', item): does the pattern match
HasItemKey(item) ==
  LET m == LetterRun(item, 2)
  IN /\ Len(item) >= 1 /\ item[1] = "@"
     /\ m > 1 /\ m + 1 =< Len(item) /\ item[m + 1] = "{"
     /\ First(item, ",", m + 2) > m + 2

\* ... and its group(1)
BibtexItemKey(item) ==
  LET m == LetterRun(item, 2)
  IN SubSeq(item, m + 2, First(item, ",", m + 2) - 1)

\* ------------------------------------------------------------------------
\* Inputs: the LaTeX document, the local BibTeX files, the fetched payloads
\* ------------------------------------------------------------------------
\* the tokens a citation may list: one key per provider, a second key of one
\* provider, and a key of no provider
CiteTokens ==
  <<<<"x">>, <<Prefix["Springer"], "x">>, <<Prefix["DBLP"], "y">>,
    <<Prefix["Microsoft"], "x">>, <<Prefix["DBLP"], "x">>,
    <<Prefix["Cogprints"], "x">>>>

\* the tokens at the positions I, in the order of CiteTokens
RECURSIVE JoinKeys(_)
JoinKeys(I) ==
  IF Cardinality(I) = 1 THEN CiteTokens[Min(I)]
  ELSE CiteTokens[Min(I)] \o <<",", "SP">> \o JoinKeys(I \ {Min(I)})

\* a document of two lines: a \citep with blanks around a key, an empty
\* piece and a key of no provider, a \cite with an empty argument list, and
\* a \textcite whose brace is never closed
MixedDocument ==
  <<"citep", "{", "SP", Prefix["DBLP"], "x", "SP", ",", ",", "x", "}",
    "cite", "{", "}", "NL",
    "textcite", "{", Prefix["Cogprints"], "x", "NL">>

\* the documents of one line, \cite{k1, k2, ...}, of at most MaxCited keys,
\* and the mixed one
Documents ==
  {<<"cite", "{">> \o JoinKeys(I) \o <<"}", "NL">> :
     I \in {J \in SUBSET (1..Len(CiteTokens)) :
              J # {} /\ Cardinality(J) =< MaxCited}}
    \cup {MixedDocument}

\* the key the local files may already hold
FileKey == <<Prefix["DBLP"], "x">>

\* a record as the program writes it, and one with a field on its header line
FileTexts ==
  {<<"@", "a", "{">> \o FileKey \o <<",", "NL", "}", "NL", "NL">>,
   <<"@", "a", "{">> \o FileKey
      \o <<",", "x", "=", "{", "y", "}", ",", "NL", "}", "NL", "NL">>}

\* the records a server may answer with when asked for key k: the record of
\* k, the record of FileKey (GoodRecord of either), and a record without a
\* comma
GoodRecord(kk) == <<"@", "a", "{">> \o kk \o <<",", "NL", "}", "NL">>

BadRecord == <<"@", "a", "{", "x", "NL", "}", "NL">>

\* n times the record of key kk
RECURSIVE Repeat(_, _)
Repeat(kk, n) == IF n = 0 THEN <<>> ELSE GoodRecord(kk) \o Repeat(kk, n - 1)

\* payloads of at most MaxItems records: records of k, then records of
\* FileKey, then possibly a record without a comma
Payloads(k) ==
  {Repeat(k, n[1]) \o Repeat(FileKey, n[2])
       \o (IF n[3] = 1 THEN BadRecord ELSE <<>>) :
     n \in {m \in (0..MaxItems) \X (0..MaxItems) \X (0..1) :
              m[1] + m[2] + m[3] =< MaxItems}}

\* ------------------------------------------------------------------------
\* State
\* ------------------------------------------------------------------------
VARIABLES
  pc,             \* position of the script
  doc,            \* text of the LaTeX document
  start_exists,   \* which BibTeX files existed when the run started
  start_content,  \* their content when the run started
  bibtex_exists,  \* which BibTeX files exist
  bibtex_content, \* their content
  known_keys,     \* known_keys
  keys,           \* cogprints_keys, dblp_keys, microsoft_keys, springer_keys,
                  \* unused_keys
  report,         \* the message check_missing_keys printed per provider
  scan,           \* index of the next file read_all_existing_files reads
  prov,           \* index of the provider open_file is running
  todo,           \* keys the provider's for loop still has to visit
  fetched_keys,   \* fetched_<provider>_keys
  response,       \* <provider>_bibtex_file_content of the current fetch
  pending,        \* records of the response not yet visited
  requests        \* the HTTP requests issued so far, in order

vars == <<pc, doc, start_exists, start_content, bibtex_exists, bibtex_content,
          known_keys, keys, report, scan, prov, todo, fetched_keys, response,
          pending, requests>>

\* ------------------------------------------------------------------------
\* Functions of the script
\* ------------------------------------------------------------------------
RECURSIVE LineKeys(_)
\* the groups of all matches on all lines, as a set
LineKeys(lines) ==
  IF lines = <<>> THEN {}
  ELSE LET g == BibtexCitations(Head(lines), 1)
       IN {g[n] : n \in 1..Len(g)} \cup LineKeys(Tail(lines))

\* read_existing_file: the keys a file contributes
ReadExistingFileKeys(exists, content) ==
  IF exists THEN LineKeys(FileLines(content)) ELSE {}

\* known_keys.add over the keys found in one file
AddKnownKeys(known, found) == known \cup found

\* variant: the last branch is not an else, it runs for every key
AddKeyAlwaysUnused(b, key) ==
  LET u == [b EXCEPT !["unused"] = @ \cup {key}]
  IN IF StartsWith(key, Prefix["Cogprints"])
     THEN [u EXCEPT !["Cogprints"] = @ \cup {key}]
     ELSE IF StartsWith(key, Prefix["DBLP"])
     THEN [u EXCEPT !["DBLP"] = @ \cup {key}]
     ELSE IF StartsWith(key, Prefix["Microsoft"])
     THEN [u EXCEPT !["Microsoft"] = @ \cup {key}]
     ELSE IF StartsWith(key, Prefix["Springer"])
     THEN [u EXCEPT !["Springer"] = @ \cup {key}]
     ELSE u

\* the if/elif chain of read_latex for one stripped key
AddKey(b, key) ==
  IF StartsWith(key, Prefix["Cogprints"])
  THEN [b EXCEPT !["Cogprints"] = @ \cup {key}]
  ELSE IF StartsWith(key, Prefix["DBLP"])
  THEN [b EXCEPT !["DBLP"] = @ \cup {key}]
  ELSE IF StartsWith(key, Prefix["Microsoft"])
  THEN [b EXCEPT !["Microsoft"] = @ \cup {key}]
  ELSE IF StartsWith(key, Prefix["Springer"])
  THEN [b EXCEPT !["Springer"] = @ \cup {key}]
  ELSE [b EXCEPT !["unused"] = @ \cup {key}]

\* for key in group.split(','): classify key.strip()
RECURSIVE AddGroup(_, _)
AddGroup(b, pieces) ==
  IF pieces = <<>> THEN b
  ELSE AddGroup(AddKey(b, Strip(Head(pieces))), Tail(pieces))

\* for match in re.finditer(...): for group in match.groups()
RECURSIVE AddGroups(_, _)
AddGroups(b, groups) ==
  IF groups = <<>> THEN b
  ELSE AddGroups(AddGroup(b, SplitComma(Head(groups))), Tail(groups))

\* for line in file
RECURSIVE AddLines(_, _)
AddLines(b, lines) ==
  IF lines = <<>> THEN b
  ELSE AddLines(AddGroups(b, TexCitation(Head(lines), 1)), Tail(lines))

\* check_missing_keys: the message it prints
MissingKeysReport(exists, name_keys) ==
  IF ~exists /\ name_keys = {} THEN "no file"
  ELSE IF name_keys = {} THEN "up to date"
  ELSE "fetching"

\* check_missing_keys: the set it returns
CheckMissingKeys(exists, name_keys) == name_keys

\* variant: the test looks at known_keys only
IsNewKeyKnownOnly(key, fetched, known) == key \notin known

\* the test guarding file.write
IsNewKey(key, fetched, known) == key \notin (fetched \cup known)

\* variant: the file is opened with 'w'
AppendItemTruncating(content, item) == item \o <<"NL", "NL">>

\* file.write(item); file.write('\n\n') on a file opened with 'a'
AppendItem(content, item) == content \o item \o <<"NL", "NL">>

\* variant: the key is not recorded
AddFetchedNothing(fetched, key) == fetched

\* fetched_<provider>_keys.add(key)
AddFetched(fetched, key) == fetched \cup {key}

\* one pass of the inner loop over a record that has a key
MergeItem(content, fetched, known, item) ==
  LET key == BibtexItemKey(item)
  IN IF IsNewKey(key, fetched, known)
     THEN [content |-> AppendItem(content, item),
           fetched |-> AddFetched(fetched, key)]
     ELSE [content |-> content, fetched |-> fetched]

\* ------------------------------------------------------------------------
\* Steps of the script
\* ------------------------------------------------------------------------
Cur == ProviderOrder[prov]

Init ==
  /\ pc = "scan"
  /\ doc \in Documents
  /\ start_exists \in [Providers -> BOOLEAN]
  /\ \E text \in FileTexts :
       start_content = [p \in Providers |->
                          IF start_exists[p] THEN text ELSE <<>>]
  /\ bibtex_exists = start_exists
  /\ bibtex_content = start_content
  /\ known_keys = {}
  /\ keys = [b \in Buckets |-> {}]
  /\ report = [p \in Providers |-> "none"]
  /\ scan = 1
  /\ prov = 1
  /\ todo = {}
  /\ fetched_keys = {}
  /\ response = <<>>
  /\ pending = <<>>
  /\ requests = <<>>

\* read_all_existing_files: one call of read_existing_file
ReadExistingFile ==
  /\ pc = "scan"
  /\ LET p == ProviderOrder[scan]
     IN known_keys' = AddKnownKeys(known_keys,
                        ReadExistingFileKeys(bibtex_exists[p],
                                             bibtex_content[p]))
  /\ IF scan = Len(ProviderOrder)
     THEN pc' = "latex" /\ scan' = scan
     ELSE pc' = pc /\ scan' = scan + 1
  /\ UNCHANGED <<doc, start_exists, start_content, bibtex_exists,
                 bibtex_content, keys, report, prov, todo, fetched_keys,
                 response, pending, requests>>

\* read_latex
ReadLatex ==
  /\ pc = "latex"
  /\ keys' = AddLines(keys, FileLines(doc))
  /\ pc' = "open"
  /\ UNCHANGED <<doc, start_exists, start_content, bibtex_exists,
                 bibtex_content, known_keys, report, scan, prov, todo,
                 fetched_keys, response, pending, requests>>

\* open_<provider>_file up to the head of its for loop
OpenProviderFile ==
  /\ pc = "open"
  /\ fetched_keys' = {}
  /\ report' = [report EXCEPT
                  ![Cur] = MissingKeysReport(bibtex_exists[Cur], keys[Cur])]
  /\ todo' = CheckMissingKeys(bibtex_exists[Cur], keys[Cur])
  /\ response' = <<>>
  /\ pc' = "fetch"
  /\ UNCHANGED <<doc, start_exists, start_content, bibtex_exists,
                 bibtex_content, known_keys, keys, scan, prov, pending,
                 requests>>

\* variant: the file is opened before the request is made
FetchFailsAfterOpen ==
  /\ pc = "fetch"
  /\ \E k \in todo :
       /\ requests' = Append(requests, [prov |-> Cur, key |-> k])
       /\ todo' = todo \ {k}
  /\ bibtex_exists' = [bibtex_exists EXCEPT ![Cur] = TRUE]
  /\ pc' = "http error"
  /\ UNCHANGED <<doc, start_exists, start_content, bibtex_content,
                 known_keys, keys, report, scan, prov, fetched_keys,
                 response, pending>>

\* req.urlopen raises: the exception ends the run
FetchFails ==
  /\ pc = "fetch"
  /\ \E k \in todo :
       /\ requests' = Append(requests, [prov |-> Cur, key |-> k])
       /\ todo' = todo \ {k}
  /\ pc' = "http error"
  /\ UNCHANGED <<doc, start_exists, start_content, bibtex_exists,
                 bibtex_content, known_keys, keys, report, scan, prov,
                 fetched_keys, response, pending>>

\* req.urlopen answers; the file is opened for appending
Fetch ==
  /\ pc = "fetch"
  /\ \E k \in todo :
       /\ requests' = Append(requests, [prov |-> Cur, key |-> k])
       /\ todo' = todo \ {k}
       /\ \E text \in Payloads(k) :
            /\ response' = text
            /\ pending' = BibtexItems(text, 1)
  /\ bibtex_exists' = [bibtex_exists EXCEPT ![Cur] = TRUE]
  /\ pc' = IF pending' = <<>> THEN "fetch" ELSE "merge"
  /\ UNCHANGED <<doc, start_exists, start_content, bibtex_content,
                 known_keys, keys, report, scan, prov, fetched_keys>>

\* one record of the response: written or skipped
Merge ==
  /\ pc = "merge"
  /\ HasItemKey(Head(pending))
  /\ LET m == MergeItem(bibtex_content[Cur], fetched_keys, known_keys,
                        Head(pending))
     IN /\ bibtex_content' = [bibtex_content EXCEPT ![Cur] = m.content]
        /\ fetched_keys' = m.fetched
  /\ pending' = Tail(pending)
  /\ pc' = IF pending' = <<>> THEN "fetch" ELSE "merge"
  /\ UNCHANGED <<doc, start_exists, start_content, bibtex_exists,
                 known_keys, keys, report, scan, prov, todo, response,
                 requests>>

\* re.match returns None for the record: .group(1) raises and ends the run
MergeFails ==
  /\ pc = "merge"
  /\ ~HasItemKey(Head(pending))
  /\ pc' = "parse error"
  /\ UNCHANGED <<doc, start_exists, start_content, bibtex_exists,
                 bibtex_content, known_keys, keys, report, scan, prov, todo,
                 fetched_keys, response, pending, requests>>

\* the for loop of the provider is exhausted: open_file goes on
NextProvider ==
  /\ pc = "fetch"
  /\ todo = {}
  /\ IF prov = Len(ProviderOrder)
     THEN pc' = "done" /\ prov' = prov
     ELSE pc' = "open" /\ prov' = prov + 1
  /\ UNCHANGED <<doc, start_exists, start_content, bibtex_exists,
                 bibtex_content, known_keys, keys, report, scan, todo,
                 fetched_keys, response, pending, requests>>

Next ==
  \/ ReadExistingFile
  \/ ReadLatex
  \/ OpenProviderFile
  \/ FetchFails
  \/ Fetch
  \/ Merge
  \/ MergeFails
  \/ NextProvider

Spec == Init /\ [][Next]_vars

\* the whole inner loop over the records of one response
RECURSIVE MergeAll(_, _, _, _)
MergeAll(content, fetched, known, items) ==
  IF items = <<>> THEN [content |-> content, fetched |-> fetched]
  ELSE LET m == MergeItem(content, fetched, known, Head(items))
       IN MergeAll(m.content, m.fetched, known, Tail(items))

\* ------------------------------------------------------------------------
\* Vocabulary of the properties
\* ------------------------------------------------------------------------
\* what a run has added to the file of provider p
AppendedText(p) ==
  SubSeq(bibtex_content[p], Len(start_content[p]) + 1, Len(bibtex_content[p]))

\* ... read back as records
AppendedItems(p) == BibtexItems(AppendedText(p), 1)

\* ... and the same of the state a step leads to
AppendedItemsNext(p) ==
  BibtexItems(SubSeq(bibtex_content'[p], Len(start_content'[p]) + 1,
                     Len(bibtex_content'[p])), 1)

ItemKeys(items) == {BibtexItemKey(items[n]) : n \in 1..Len(items)}

RECURSIVE WithSeparators(_)
WithSeparators(items) ==
  IF items = <<>> THEN <<>>
  ELSE Head(items) \o <<"NL", "NL">> \o WithSeparators(Tail(items))

\* the keys requested from provider p so far
Requested(p) ==
  {requests[i].key : i \in {j \in 1..Len(requests) : requests[j].prov = p}}

\* position of a provider in the order Cogprints, DBLP, Microsoft, Springer
Rank == [Cogprints |-> 1, DBLP |-> 2, Microsoft |-> 3, Springer |-> 4]

\* the stripped tokens of all citation argument lists of the document
RECURSIVE GroupTokens(_)
GroupTokens(groups) ==
  IF groups = <<>> THEN {}
  ELSE LET ps == SplitComma(Head(groups))
       IN {Strip(ps[n]) : n \in 1..Len(ps)} \cup GroupTokens(Tail(groups))

DocTokens ==
  LET lines == FileLines(doc)
  IN UNION {GroupTokens(TexCitation(lines[n], 1)) : n \in 1..Len(lines)}

\* the bucket of the first literal prefix a token starts with
BucketOf(k) ==
  IF Len(k) >= 1 /\ \E p \in Providers : k[1] = Prefix[p]
  THEN CHOOSE p \in Providers : k[1] = Prefix[p]
  ELSE "unused"

\* the keys of the records a file held when the run started
EntryKeys(p) ==
  IF start_exists[p] THEN ItemKeys(BibtexItems(start_content[p], 1)) ELSE {}

\* the header lines of the files the run started with, read the way the
\* merge step reads a record header
HeaderKeys(p) ==
  LET lines == FileLines(start_content[p])
  IN IF start_exists[p]
     THEN {BibtexItemKey(lines[n]) :
             n \in {m \in 1..Len(lines) : HasItemKey(lines[m])}}
     ELSE {}

Scanned == pc # "scan"

Extracted == pc \notin {"scan", "latex"}

\* ------------------------------------------------------------------------
\* Properties
\* ------------------------------------------------------------------------
\* C1: a record of a fetched payload is appended to the provider's file
\* exactly when its key is neither in known_keys nor among the keys already
\* appended for that provider in this run; so the keys appended to one file
\* are pairwise different and none of them is in known_keys.
C1_AppendIffNew ==
  [][ /\ (pc = "merge" /\ HasItemKey(Head(pending))) =>
           ((bibtex_content'[Cur] # bibtex_content[Cur])
              <=> BibtexItemKey(Head(pending))
                    \notin (known_keys \cup ItemKeys(AppendedItems(Cur))))
      /\ \A p \in Providers :
           \A items \in {AppendedItemsNext(p)} :
             /\ \A i, j \in 1..Len(items) :
                  BibtexItemKey(items[i]) = BibtexItemKey(items[j]) => i = j
             /\ ItemKeys(items) \cap known_keys' = {}
    ]_vars

\* C1 witness: a payload of two records was merged, one written, one skipped
C1_Witness ==
  /\ pc = "fetch"
  /\ Len(BibtexItems(response, 1)) = 2
  /\ Len(AppendedItems(Cur)) = 1

\* C2: the keys requested from a provider are its cited keys that are not
\* known, each requested once; nothing is requested when all are known.
C2_RequestsAreCitedMinusKnown ==
  Extracted =>
    /\ \A i \in 1..Len(requests) :
         requests[i].key \in keys[requests[i].prov] \ known_keys
    /\ \A i, j \in 1..Len(requests) : requests[i] = requests[j] => i = j
    /\ pc = "done" =>
         \A p \in Providers : Requested(p) = keys[p] \ known_keys

\* C3: a file that did not exist at the start and whose provider has no
\* cited key outside known_keys does not exist at the end of the run.
C3_NoFileWhenNothingMissing ==
  pc = "done" =>
    \A p \in Providers :
      (~start_exists[p] /\ keys[p] \ known_keys = {}) => ~bibtex_exists[p]

\* C4: the step in which a fetch fails changes no file, and nothing happens
\* after it: no further request, no write.
C4_FetchFailureStopsRun ==
  [][ /\ pc' = "http error" =>
           /\ bibtex_content' = bibtex_content
           /\ bibtex_exists' = bibtex_exists
      /\ pc # "http error"
    ]_vars

\* C4 witness: a fetch failed after an earlier key's record had been written
C4_Witness ==
  /\ pc = "http error"
  /\ \E p \in Providers : AppendedItems(p) # <<>>

\* C5: once a response has been merged, merging the same response again
\* from the state reached appends nothing, and no record of the response is
\* in the file twice.
C5_SecondMergeAppendsNothing ==
  (pc = "fetch" /\ response # <<>>) =>
    \A items \in {BibtexItems(response, 1)}, added \in {AppendedItems(Cur)} :
      /\ MergeAll(bibtex_content[Cur], fetched_keys, known_keys,
                  items).content = bibtex_content[Cur]
      /\ \A i \in 1..Len(items) :
           Cardinality({n \in 1..Len(added) : added[n] = items[i]}) =< 1

\* C5 witness: the first merge of the response wrote one of its records
C5_Witness ==
  /\ pc = "fetch"
  /\ response # <<>>
  /\ \E i \in 1..Len(BibtexItems(response, 1)) :
       \E n \in 1..Len(AppendedItems(Cur)) :
         AppendedItems(Cur)[n] = BibtexItems(response, 1)[i]

\* C6: every stripped token of a citation argument list is in exactly the
\* bucket of the first prefix it starts with (unused if none), the buckets
\* hold nothing else, the five buckets are pairwise disjoint, and no key of
\* the unused bucket is requested.
C6_TokensClassifiedOnce ==
  /\ \A b1, b2 \in Buckets : b1 # b2 => keys[b1] \cap keys[b2] = {}
  /\ Extracted =>
       \A tokens \in {DocTokens} :
         /\ \A k \in tokens : \A b \in Buckets :
              k \in keys[b] <=> b = BucketOf(k)
         /\ UNION {keys[b] : b \in Buckets} = tokens
  /\ \A i \in 1..Len(requests) : requests[i].key \notin keys["unused"]

\* C6 witness: a run ended that had a foreign key and a fetched key
C6_Witness ==
  /\ pc = "done"
  /\ keys["unused"] # {}
  /\ requests # <<>>

\* C7: after the scan known_keys is the union of the entry keys of the four
\* files and stays so; no record whose key is an entry key of any of the
\* four files is appended to any file.
C7_KnownIsUnionOfEntryKeys ==
  Scanned =>
    /\ known_keys = UNION {EntryKeys(p) : p \in Providers}
    /\ \A p \in Providers :
         ItemKeys(AppendedItems(p)) \cap UNION {EntryKeys(q) : q \in Providers}
           = {}

\* C8: a request is issued only when no record of the previous response is
\* left, never for a provider that comes before one already asked, and only
\* after every cited key of all earlier providers has been requested; a
\* write appends a record of the response of the latest request to the file
\* of that request's provider.
C8_OneFetchAtATimeInProviderOrder ==
  [][ /\ requests' # requests =>
           /\ pc = "fetch" /\ pending = <<>>
           /\ Len(requests') = Len(requests) + 1
           /\ SubSeq(requests', 1, Len(requests)) = requests
           /\ LET r == requests'[Len(requests')]
              IN /\ \A i \in 1..Len(requests) :
                      Rank[requests[i].prov] =< Rank[r.prov]
                 /\ \A q \in Providers :
                      Rank[q] < Rank[r.prov] => keys[q] \subseteq Requested(q)
      /\ bibtex_content' # bibtex_content =>
           /\ requests' = requests /\ requests # <<>>
           /\ response' = response
           /\ LET r == requests[Len(requests)]
                  items == BibtexItems(response, 1)
              IN /\ \A p \in Providers \ {r.prov} :
                      bibtex_content'[p] = bibtex_content[p]
                 /\ \E i \in 1..Len(items) :
                      bibtex_content'[r.prov] =
                        bibtex_content[r.prov] \o items[i] \o <<"NL", "NL">>
    ]_vars

\* C8 witness: two providers were asked and both files received a record
C8_Witness ==
  /\ Len(requests) >= 2
  /\ requests[1].prov # requests[2].prov
  /\ AppendedItems(requests[1].prov) # <<>>
  /\ AppendedItems(requests[2].prov) # <<>>

\* C9: every file is its content at the start of the run followed by the
\* appended records, each followed by a blank separator; a step either
\* leaves a file alone or appends one record and separator to the file of
\* the provider being merged; a file that exists keeps existing.
C9_FilesAppendOnly ==
  [][ \A p \in Providers :
        /\ bibtex_exists[p] => bibtex_exists'[p]
        /\ \A items \in {AppendedItemsNext(p)} :
             bibtex_content'[p] = start_content[p] \o WithSeparators(items)
        /\ \/ bibtex_content'[p] = bibtex_content[p]
           \/ /\ pc = "merge" /\ p = Cur
              /\ bibtex_content'[p] =
                   bibtex_content[p] \o Head(pending) \o <<"NL", "NL">>
    ]_vars

\* C9 witness: a file that held a record at the start received another one
C9_Witness ==
  \E p \in Providers :
    start_content[p] # <<>> /\ AppendedItems(p) # <<>>

\* C10: after the scan known_keys is the set of the keys of all header
\* lines '@type{key,' of the existing files, the key being the text between
\* the opening brace and the first comma as the merge step extracts it; a
\* file that does not exist contributes nothing.
C10_HeaderKeysAreKnown ==
  Scanned => known_keys = UNION {HeaderKeys(p) : p \in Providers}

====
